---- MODULE Spec2Model ----
(***************************************************************************)
(* Model of meson.py: command-line handling in __main__, BuilderApp        *)
(* construction (validate_dirs, has_builder_file, the --prefix check) and  *)
(* BuilderApp.generate, the staged hand-off to the environment, build,     *)
(* interpreter and generator collaborators.                                *)
(*                                                                         *)
(* The file system is a small fixed tree under the working directory /w:   *)
(*   /w      directory (the current directory, ".")                        *)
(*   /w/a    directory                                                     *)
(*   /w/b    directory                                                     *)
(*   /w/l    symbolic link to /w/a                                         *)
(*   /w/f    regular file                                                  *)
(*   /w/n    does not exist                                                *)
(* Which directories hold an openable build file is chosen in Init.        *)
(***************************************************************************)
EXTENDS Integers, Sequences, FiniteSets, TLC

\* Largest number of entries of sys.argv (program name included) explored.
MaxArgs == 4

\* sys.argv[0]
ProgName == "meson.py"

\* Path strings a user can pass on the command line.
Paths == {".", "a", "b", "l", "f", "n", "/w/a"}

\* Values of --prefix, as sequences of characters.
Prefixes == { <<"/", "u">>, <<"u">>, <<>> }

\* Values of -G/--generator.
GeneratorNames == {"shell", "ninja", "Ninja", "bogus"}

\* Directories of the tree, by identity (what st_ino/st_dev distinguish).
DirEntities == {"ino_w", "ino_a", "ino_b"}

VARIABLES
    args,        \* positional result of parser.parse_args(sys.argv)
    options,     \* the module-level options object: prefix, generator
    marker,      \* file system: directory entity -> build file can be opened
    pc,          \* position of the process in __main__ / generate
    dir1,        \* __main__'s dir1
    dir2,        \* __main__'s dir2
    source_dir,  \* builder.source_dir
    build_dir,   \* builder.build_dir
    fsLog,       \* file system accesses made so far, in order
    calls,       \* collaborator calls started so far, in order
    completed,   \* collaborator calls that returned without raising
    stdout,      \* lines printed
    error,       \* the exception that ended the process: [kind, arg]
    exit_code    \* process exit status, -1 while running

vars == <<args, options, marker, pc, dir1, dir2, source_dir, build_dir,
          fsLog, calls, completed, stdout, error, exit_code>>

NoError == [kind |-> "none", arg |-> ""]

NoDir == ""

(***************************************************************************)
(* File system primitives                                                  *)
(***************************************************************************)

\* os.path.abspath: joins a relative path to the working directory and
\* normalises it ("." becomes the working directory itself); symbolic
\* links are not resolved.
abspath(p) ==
    CASE p = "."    -> "/w"
      [] p = "a"    -> "/w/a"
      [] p = "b"    -> "/w/b"
      [] p = "l"    -> "/w/l"
      [] p = "f"    -> "/w/f"
      [] p = "n"    -> "/w/n"
      [] OTHER      -> p

\* os.stat: follows symbolic links; "missing" stands for FileNotFoundError.
stat(p) ==
    LET ap == abspath(p) IN
    CASE ap = "/w"   -> [kind |-> "dir",  ino |-> "ino_w"]
      [] ap = "/w/a" -> [kind |-> "dir",  ino |-> "ino_a"]
      [] ap = "/w/b" -> [kind |-> "dir",  ino |-> "ino_b"]
      [] ap = "/w/l" -> [kind |-> "dir",  ino |-> "ino_a"]
      [] ap = "/w/f" -> [kind |-> "file", ino |-> "ino_f"]
      [] OTHER       -> [kind |-> "missing", ino |-> "none"]

\* stat.S_ISDIR(os.stat(p).st_mode), for a path that exists
S_ISDIR(p) == stat(p).kind = "dir"

\* os.path.samefile mutated: compares the normalised path strings
samefile_strcmp(p, q) == abspath(p) = abspath(q)

\* os.path.samefile: both paths stat'ed, compared by identity
samefile(p, q) == stat(p).ino = stat(q).ino

\* has_builder_file mutated: probes the directory instead of the build file
has_builder_file_dirprobe(mk, dirname) == S_ISDIR(dirname)

\* BuilderApp.has_builder_file: True iff open(dirname/meson.build) succeeds
has_builder_file(mk, dirname) ==
    /\ stat(dirname).kind = "dir"
    /\ mk[stat(dirname).ino]

(***************************************************************************)
(* BuilderApp.validate_dirs                                                *)
(***************************************************************************)

Access(op, path) == [op |-> op, path |-> path]

Raise(kind, arg, log) ==
    [kind |-> kind, arg |-> arg, source_dir |-> NoDir, build_dir |-> NoDir,
     log |-> log]

Return(src, bld, log) ==
    [kind |-> "ok", arg |-> "", source_dir |-> src, build_dir |-> bld,
     log |-> log]

\* validate_dirs mutated: the second marker branch forgets to swap the pair
validate_dirs_noswap(mk, d1, d2) ==
    LET ndir1 == abspath(d1)
        ndir2 == abspath(d2)
        l1 == <<Access("stat", ndir1)>>
        l2 == Append(l1, Access("stat", ndir2))
        l3 == Append(l2, Access("samefile", d1))
        l4 == Append(l3, Access("open", ndir1))
        l5 == Append(l4, Access("open", ndir2))
    IN  IF stat(ndir1).kind = "missing" THEN Raise("OSError", ndir1, l1)
        ELSE IF ~S_ISDIR(ndir1) THEN Raise("NotADirectory", d1, l1)
        ELSE IF stat(ndir2).kind = "missing" THEN Raise("OSError", ndir2, l2)
        ELSE IF ~S_ISDIR(ndir2) THEN Raise("NotADirectory", d2, l2)
        ELSE IF samefile(d1, d2) THEN Raise("SameDirectory", "", l3)
        ELSE IF has_builder_file(mk, ndir1)
             THEN IF has_builder_file(mk, ndir2)
                  THEN Raise("BothHaveBuildFile", "", l5)
                  ELSE Return(ndir1, ndir2, l5)
        ELSE IF has_builder_file(mk, ndir2) THEN Return(ndir1, ndir2, l5)
        ELSE Raise("NeitherHasBuildFile", "", l5)

\* BuilderApp.validate_dirs(dir1, dir2) on the file system mk.  The result
\* carries the outcome (kind "ok" with the (source_dir, build_dir) pair, or
\* the exception raised and its argument) and the file system accesses made
\* on the way.  os.stat of a path that does not exist raises the OSError of
\* the standard library; no handler in the method catches it.
validate_dirs(mk, d1, d2) ==
    LET ndir1 == abspath(d1)
        ndir2 == abspath(d2)
        l1 == <<Access("stat", ndir1)>>
        l2 == Append(l1, Access("stat", ndir2))
        l3 == Append(l2, Access("samefile", d1))
        l4 == Append(l3, Access("open", ndir1))
        l5 == Append(l4, Access("open", ndir2))
    IN  IF stat(ndir1).kind = "missing" THEN Raise("OSError", ndir1, l1)
        ELSE IF ~S_ISDIR(ndir1) THEN Raise("NotADirectory", d1, l1)
        ELSE IF stat(ndir2).kind = "missing" THEN Raise("OSError", ndir2, l2)
        ELSE IF ~S_ISDIR(ndir2) THEN Raise("NotADirectory", d2, l2)
        ELSE IF samefile(d1, d2) THEN Raise("SameDirectory", "", l3)
        ELSE IF has_builder_file(mk, ndir1)
             THEN IF has_builder_file(mk, ndir2)
                  THEN Raise("BothHaveBuildFile", "", l5)
                  ELSE Return(ndir1, ndir2, l5)
        ELSE IF has_builder_file(mk, ndir2) THEN Return(ndir2, ndir1, l5)
        ELSE Raise("NeitherHasBuildFile", "", l5)

\* Exceptions that BuilderApp.__init__ can end with.
ConstructionErrors ==
    {"OSError", "NotADirectory", "SameDirectory", "BothHaveBuildFile",
     "NeitherHasBuildFile", "InvalidPrefix", "IndexError"}

(***************************************************************************)
(* Initial state: the process has been started and the options parsed      *)
(***************************************************************************)

\* Sequences over S of length lo..hi
SeqsOf(S, lo, hi) == UNION { [1..n -> S] : n \in lo..hi }

Init ==
    /\ args \in { <<ProgName>> \o t : t \in SeqsOf(Paths, 0, MaxArgs - 1) }
    /\ options \in [prefix : Prefixes, generator : GeneratorNames]
    /\ marker \in [DirEntities -> BOOLEAN]
    /\ pc = "main"
    /\ dir1 = NoDir
    /\ dir2 = NoDir
    /\ source_dir = NoDir
    /\ build_dir = NoDir
    /\ fsLog = <<>>
    /\ calls = <<>>
    /\ completed = <<>>
    /\ stdout = <<>>
    /\ error = NoError
    /\ exit_code = -1

(***************************************************************************)
(* __main__                                                                *)
(***************************************************************************)

Line(tag, text) == [tag |-> tag, text |-> text]

UsageLines ==
    << Line("usage", ProgName),
       Line("hint", "If you omit either directory, the current directory is substituted.") >>

\* The uncaught exception ends the process with a traceback and status 1.
Die(kind, arg) ==
    /\ error' = [kind |-> kind, arg |-> arg]
    /\ exit_code' = 1
    /\ pc' = "exit"

\* __main__ mutated: only too many arguments is a usage error, and a missing
\* source directory falls back to the current directory
ParseArgs_zero_ok ==
    /\ pc = "main"
    /\ IF Len(args) > 3
       THEN /\ stdout' = stdout \o UsageLines
            /\ exit_code' = 1
            /\ pc' = "exit"
            /\ UNCHANGED <<dir1, dir2>>
       ELSE /\ dir1' = IF Len(args) > 1 THEN args[2] ELSE "."
            /\ dir2' = IF Len(args) > 2 THEN args[3] ELSE "."
            /\ pc' = "construct"
            /\ UNCHANGED <<stdout, exit_code>>
    /\ UNCHANGED <<args, options, marker, source_dir, build_dir, fsLog,
                   calls, completed, error>>

\* __main__, from parse_args to the choice of dir1 and dir2.  args holds
\* sys.argv[0] first, so args[2] here is Python's args[1].
ParseArgs ==
    /\ pc = "main"
    /\ IF Len(args) = 1 \/ Len(args) > 3
       THEN /\ stdout' = stdout \o UsageLines
            /\ exit_code' = 1
            /\ pc' = "exit"
            /\ UNCHANGED <<dir1, dir2>>
       ELSE /\ dir1' = args[2]
            /\ dir2' = IF Len(args) > 2 THEN args[3] ELSE "."
            /\ pc' = "construct"
            /\ UNCHANGED <<stdout, exit_code>>
    /\ UNCHANGED <<args, options, marker, source_dir, build_dir, fsLog,
                   calls, completed, error>>

\* BuilderApp.__init__ mutated: the prefix is checked before the directories
BuilderApp_init_prefix_first ==
    /\ pc = "construct"
    /\ LET r == validate_dirs(marker, dir1, dir2) IN
       IF Len(options.prefix) = 0
       THEN /\ Die("IndexError", "prefix")
            /\ UNCHANGED <<source_dir, build_dir, fsLog>>
       ELSE IF options.prefix[1] # "/"
       THEN /\ Die("InvalidPrefix", "")
            /\ UNCHANGED <<source_dir, build_dir, fsLog>>
       ELSE /\ fsLog' = fsLog \o r.log
            /\ IF r.kind # "ok"
               THEN /\ Die(r.kind, r.arg)
                    /\ UNCHANGED <<source_dir, build_dir>>
               ELSE /\ source_dir' = r.source_dir
                    /\ build_dir' = r.build_dir
                    /\ pc' = "print"
                    /\ UNCHANGED <<error, exit_code>>
    /\ UNCHANGED <<args, options, marker, dir1, dir2, calls, completed, stdout>>

\* BuilderApp.__init__ mutated: a failed validation is recorded but the
\* process carries on
BuilderApp_init_carry_on ==
    /\ pc = "construct"
    /\ LET r == validate_dirs(marker, dir1, dir2) IN
       /\ fsLog' = fsLog \o r.log
       /\ source_dir' = r.source_dir
       /\ build_dir' = r.build_dir
       /\ IF r.kind # "ok"
          THEN /\ error' = [kind |-> r.kind, arg |-> r.arg]
               /\ pc' = "print"
               /\ UNCHANGED exit_code
          ELSE IF Len(options.prefix) = 0
          THEN Die("IndexError", "prefix")
          ELSE IF options.prefix[1] # "/"
          THEN Die("InvalidPrefix", "")
          ELSE /\ pc' = "print"
               /\ UNCHANGED <<error, exit_code>>
    /\ UNCHANGED <<args, options, marker, dir1, dir2, calls, completed, stdout>>

\* builder = BuilderApp(dir1, dir2, this_file, options): validate_dirs runs
\* first and its exception, if any, ends the process; then the first
\* character of options.prefix is examined (indexing an empty string raises
\* IndexError).
BuilderApp_init ==
    /\ pc = "construct"
    /\ LET r == validate_dirs(marker, dir1, dir2) IN
       /\ fsLog' = fsLog \o r.log
       /\ IF r.kind # "ok"
          THEN /\ Die(r.kind, r.arg)
               /\ UNCHANGED <<source_dir, build_dir>>
          ELSE /\ source_dir' = r.source_dir
               /\ build_dir' = r.build_dir
               /\ IF Len(options.prefix) = 0
                  THEN Die("IndexError", "prefix")
                  ELSE IF options.prefix[1] # "/"
                  THEN Die("InvalidPrefix", "")
                  ELSE /\ pc' = "print"
                       /\ UNCHANGED <<error, exit_code>>
    /\ UNCHANGED <<args, options, marker, dir1, dir2, calls, completed, stdout>>

\* print('Source dir: ...'); print('Build dir: ...')
PrintDirs ==
    /\ pc = "print"
    /\ stdout' = stdout \o << Line("Source dir: ", source_dir),
                              Line("Build dir: ", build_dir) >>
    /\ pc' = "env"
    /\ UNCHANGED <<args, options, marker, dir1, dir2, source_dir, build_dir,
                   fsLog, calls, completed, error, exit_code>>

(***************************************************************************)
(* BuilderApp.generate                                                     *)
(***************************************************************************)

\* A call into a collaborator: it is started, and either returns (control
\* moves to next) or raises, which nothing in generate or __main__ catches.
Call(name, ok, next) ==
    /\ calls' = Append(calls, name)
    /\ IF ok
       THEN /\ completed' = Append(completed, name)
            /\ pc' = next
            /\ exit_code' = IF next = "done" THEN 0 ELSE exit_code
            /\ UNCHANGED error
       ELSE /\ Die("CollaboratorFailure", name)
            /\ UNCHANGED completed

\* the if/elif/else on options.generator mutated: the else branch falls back
\* to the default backend
generator_class_fallback(name) ==
    IF name = "shell" THEN "ShellGenerator" ELSE "NinjaGenerator"

\* The if/elif/else on options.generator: the class that is instantiated,
\* "unknown" for the else branch.
generator_class(name) ==
    IF name = "shell" THEN "ShellGenerator"
    ELSE IF name = "ninja" THEN "NinjaGenerator"
    ELSE "unknown"

\* generate mutated: the generator name is checked on entry
Generate_Environment_check_first ==
    /\ pc = "env"
    /\ IF generator_class(options.generator) = "unknown"
       THEN /\ Die("UnknownGenerator", options.generator)
            /\ UNCHANGED <<calls, completed>>
       ELSE \E ok \in BOOLEAN : Call("Environment", ok, "build")
    /\ UNCHANGED <<args, options, marker, dir1, dir2, source_dir, build_dir,
                   fsLog, stdout>>

\* env = environment.Environment(source_dir, build_dir, script_file, options)
Generate_Environment ==
    /\ pc = "env"
    /\ \E ok \in BOOLEAN : Call("Environment", ok, "build")
    /\ UNCHANGED <<args, options, marker, dir1, dir2, source_dir, build_dir,
                   fsLog, stdout>>

\* b = build.Build(env)
Generate_Build ==
    /\ pc = "build"
    /\ \E ok \in BOOLEAN : Call("Build", ok, "interp")
    /\ UNCHANGED <<args, options, marker, dir1, dir2, source_dir, build_dir,
                   fsLog, stdout>>

\* intr = interpreter.Interpreter(b)
Generate_Interpreter ==
    /\ pc = "interp"
    /\ \E ok \in BOOLEAN : Call("Interpreter", ok, "run")
    /\ UNCHANGED <<args, options, marker, dir1, dir2, source_dir, build_dir,
                   fsLog, stdout>>

\* intr.run() mutated: a failure of the interpreter is swallowed
Generate_run_swallow ==
    /\ pc = "run"
    /\ calls' = Append(calls, "Interpreter.run")
    /\ \E ok \in BOOLEAN :
          completed' = IF ok THEN Append(completed, "Interpreter.run")
                       ELSE completed
    /\ pc' = "select"
    /\ UNCHANGED <<args, options, marker, dir1, dir2, source_dir, build_dir,
                   fsLog, stdout, error, exit_code>>

\* intr.run()
Generate_run ==
    /\ pc = "run"
    /\ \E ok \in BOOLEAN : Call("Interpreter.run", ok, "select")
    /\ UNCHANGED <<args, options, marker, dir1, dir2, source_dir, build_dir,
                   fsLog, stdout>>

\* The dispatch on options.generator: one generator class is instantiated,
\* or RuntimeError('Unknown generator "%s".') is raised.
Generate_select ==
    /\ pc = "select"
    /\ LET cls == generator_class(options.generator) IN
       IF cls = "unknown"
       THEN /\ Die("UnknownGenerator", options.generator)
            /\ UNCHANGED <<calls, completed>>
       ELSE \E ok \in BOOLEAN : Call(cls, ok, "generate")
    /\ UNCHANGED <<args, options, marker, dir1, dir2, source_dir, build_dir,
                   fsLog, stdout>>

\* g.generate(); when it returns the script ends and the process exits 0
Generate_generate ==
    /\ pc = "generate"
    /\ \E ok \in BOOLEAN : Call("generate", ok, "done")
    /\ UNCHANGED <<args, options, marker, dir1, dir2, source_dir, build_dir,
                   fsLog, stdout>>

Next ==
    \/ ParseArgs
    \/ BuilderApp_init
    \/ PrintDirs
    \/ Generate_Environment
    \/ Generate_Build
    \/ Generate_Interpreter
    \/ Generate_run
    \/ Generate_select
    \/ Generate_generate

Spec == Init /\ [][Next]_vars

(***************************************************************************)
(* Properties                                                              *)
(***************************************************************************)

\* BuilderApp(dir1, dir2, ...) has been called and has returned or raised.
InitRan == pc \notin {"main", "construct"} /\ dir1 # NoDir

IsDir(p) == stat(p).kind = "dir"

\* dir1 and dir2 are directories and not the same file system entry
DistinctDirs == IsDir(dir1) /\ IsDir(dir2) /\ stat(dir1).ino # stat(dir2).ino

HasMarker(p) == marker[stat(p).ino]

Probed == \E i \in 1..Len(fsLog) : fsLog[i].op = "open"

IsPrefix(s, t) == Len(s) <= Len(t) /\ \A i \in 1..Len(s) : s[i] = t[i]

\* C1: for two distinct directories of which exactly one holds the build
\* file, validate_dirs returns the holder (made absolute) as source_dir and
\* the other as build_dir, it returns the same pair for the arguments
\* swapped, and a returned pair never names the same directory twice.
C1_MarkerDecidesRoles ==
    InitRan =>
      /\ (DistinctDirs /\ HasMarker(dir1) # HasMarker(dir2)) =>
            LET holder == IF HasMarker(dir1) THEN dir1 ELSE dir2
                other  == IF HasMarker(dir1) THEN dir2 ELSE dir1
                swapped == validate_dirs(marker, dir2, dir1)
            IN  /\ source_dir = abspath(holder)
                /\ build_dir = abspath(other)
                /\ swapped.kind = "ok"
                /\ swapped.source_dir = source_dir
                /\ swapped.build_dir = build_dir
      /\ source_dir # NoDir =>
            /\ source_dir # build_dir
            /\ stat(source_dir).ino # stat(build_dir).ino

C1_Witness ==
    /\ InitRan
    /\ dir1 = "b" /\ dir2 = "a"
    /\ marker["ino_a"] /\ ~marker["ino_b"]
    /\ source_dir = "/w/a" /\ build_dir = "/w/b"

\* C2: for two distinct directories, both holding the build file gives the
\* 'Both directories contain a build file' error, neither holding it gives
\* the 'Neither directory contains a build file' error, and in neither case
\* is a pair returned.
C2_BothOrNeitherFails ==
    (InitRan /\ DistinctDirs) =>
      /\ (HasMarker(dir1) /\ HasMarker(dir2)) =>
            error.kind = "BothHaveBuildFile" /\ source_dir = NoDir
                                            /\ build_dir = NoDir
      /\ (~HasMarker(dir1) /\ ~HasMarker(dir2)) =>
            error.kind = "NeitherHasBuildFile" /\ source_dir = NoDir
                                              /\ build_dir = NoDir

C2_Witness ==
    /\ InitRan
    /\ dir1 = "a" /\ dir2 = "b"
    /\ ~marker["ino_a"] /\ ~marker["ino_b"]
    /\ error.kind = "NeitherHasBuildFile"

\* C3: when both arguments denote the same directory (the same path, or a
\* path and a symbolic link to it), validate_dirs fails with the
\* same-directory error whatever the directory holds, and it has not probed
\* for the build file.
C3_SameDirectoryFirst ==
    (InitRan /\ IsDir(dir1) /\ IsDir(dir2) /\ stat(dir1).ino = stat(dir2).ino) =>
      /\ error.kind = "SameDirectory"
      /\ ~Probed
      /\ source_dir = NoDir

C3_Witness ==
    /\ InitRan
    /\ dir1 = "a" /\ dir2 = "l"
    /\ ~marker["ino_a"]
    /\ error.kind = "SameDirectory"

\* C4: when an argument is not a directory (a regular file or a path that
\* does not exist), validate_dirs fails with the not-a-directory error
\* naming that argument, and it has not probed for the build file.
C4_NotADirectoryReported ==
    (InitRan /\ (~IsDir(dir1) \/ ~IsDir(dir2))) =>
      /\ error.kind = "NotADirectory"
      /\ error.arg \in {d \in {dir1, dir2} : ~IsDir(d)}
      /\ ~Probed

RelativePrefix == Len(options.prefix) = 0 \/ options.prefix[1] # "/"

\* C5 as stated: a prefix that does not start with '/' gives the
\* invalid-prefix error, and no file system access has been made when it is
\* raised.
C5_PrefixCheckedFirst ==
    (InitRan /\ RelativePrefix) =>
      /\ error.kind = "InvalidPrefix"
      /\ fsLog = <<>>

\* C5 amended: with a prefix that does not start with '/', construction
\* fails; the directories are validated first, so a directory error wins
\* when there is one, and otherwise the invalid-prefix error (IndexError for
\* the empty prefix) is raised after stat, samefile and both probes have
\* run; no collaborator is called and nothing is printed.
C5_PrefixCheckedAfterDirs ==
    (InitRan /\ RelativePrefix) =>
      /\ pc = "exit" /\ exit_code = 1
      /\ calls = <<>> /\ stdout = <<>>
      /\ IF DistinctDirs /\ HasMarker(dir1) # HasMarker(dir2)
         THEN /\ error.kind = IF Len(options.prefix) = 0 THEN "IndexError"
                              ELSE "InvalidPrefix"
              /\ Probed
         ELSE error.kind \in {"OSError", "NotADirectory", "SameDirectory",
                              "BothHaveBuildFile", "NeitherHasBuildFile"}

C5_Witness ==
    /\ InitRan
    /\ options.prefix = <<"u">>
    /\ error.kind = "InvalidPrefix"
    /\ Probed

\* C6: generate calls Environment, Build, Interpreter, Interpreter.run, one
\* generator class and generate() in that order; a call is started only
\* when every earlier one returned; the first failure ends the process with
\* nothing called after it; at most one generator is constructed and its
\* generate() runs at most once, exactly once when every stage succeeds.
C6_StagesInOrder ==
    /\ \E g \in {"ShellGenerator", "NinjaGenerator"} :
          IsPrefix(calls, <<"Environment", "Build", "Interpreter",
                            "Interpreter.run", g, "generate">>)
    /\ IsPrefix(completed, calls)
    /\ Len(calls) <= Len(completed) + 1
    /\ Len(calls) > Len(completed) =>
          /\ pc = "exit" /\ exit_code = 1
          /\ error = [kind |-> "CollaboratorFailure", arg |-> calls[Len(calls)]]
    /\ error.kind # "none" => pc = "exit"
    /\ pc = "done" =>
          /\ Len(completed) = 6
          /\ exit_code = 0
          /\ error = NoError

C6_Witness ==
    /\ pc = "done"
    /\ completed = <<"Environment", "Build", "Interpreter", "Interpreter.run",
                     "NinjaGenerator", "generate">>

\* C7: when BuilderApp construction raised, the process has ended with a
\* failure, no collaborator was called and the directory lines were not
\* printed.
C7_FailedConstructionCallsNothing ==
    error.kind \in ConstructionErrors =>
      /\ pc = "exit" /\ exit_code = 1
      /\ calls = <<>>
      /\ stdout = <<>>

C7_Witness ==
    /\ error.kind = "NeitherHasBuildFile"
    /\ pc = "exit"
    /\ dir1 = "a" /\ dir2 = "b"

\* The dispatch on options.generator has been executed.
Selected ==
    \/ pc \in {"generate", "done"}
    \/ pc = "exit" /\ Len(completed) >= 4

\* C8: 'shell' constructs ShellGenerator, 'ninja' constructs NinjaGenerator,
\* and any other name raises the unknown-generator error carrying the name,
\* with no generator constructed and generate() not called.
C8_ClosedDispatch ==
    Selected =>
      IF options.generator = "shell" THEN calls[5] = "ShellGenerator"
      ELSE IF options.generator = "ninja" THEN calls[5] = "NinjaGenerator"
      ELSE /\ error = [kind |-> "UnknownGenerator", arg |-> options.generator]
           /\ Len(calls) = 4
           /\ pc = "exit"

C8_Witness ==
    /\ Selected
    /\ options.generator = "bogus"
    /\ error = [kind |-> "UnknownGenerator", arg |-> "bogus"]

PrintedUsage == Len(stdout) >= 1 /\ stdout[1].tag = "usage"

\* C9 as stated: zero, one or two positional directories are accepted, each
\* omitted one defaulting to the current directory, and only more than two
\* is a usage error.
C9_OmittedDirsDefault ==
    pc # "main" =>
      IF Len(args) > 3
      THEN PrintedUsage /\ exit_code = 1
      ELSE /\ ~PrintedUsage
           /\ dir1 = IF Len(args) > 1 THEN args[2] ELSE "."
           /\ dir2 = IF Len(args) > 2 THEN args[3] ELSE "."

\* C9 amended: only the second directory may be omitted and then defaults
\* to the current directory; with no positional argument, as with more than
\* two, the two-line usage message is printed and the process exits with
\* status 1 without touching the file system.
C9_OnlyBuildDirDefaults ==
    pc # "main" =>
      IF Len(args) = 1 \/ Len(args) > 3
      THEN /\ Len(stdout) = 2
           /\ stdout[1].tag = "usage" /\ stdout[2].tag = "hint"
           /\ exit_code = 1 /\ pc = "exit"
           /\ fsLog = <<>> /\ calls = <<>> /\ error = NoError
      ELSE /\ ~PrintedUsage
           /\ dir1 = args[2]
           /\ dir2 = IF Len(args) = 3 THEN args[3] ELSE "."
           /\ pc # "construct" => fsLog # <<>>

C9_Witness ==
    /\ Len(args) = 1
    /\ pc = "exit"
    /\ PrintedUsage
    /\ exit_code = 1

UnknownName == options.generator \notin {"shell", "ninja"}

\* C10: the unknown-generator error is raised only after Environment, Build,
\* Interpreter and Interpreter.run have all returned; with an unknown name,
\* a failure of an earlier stage is the error reported.
C10_UnknownGeneratorRaisedLate ==
    /\ error.kind = "UnknownGenerator" =>
          /\ completed = <<"Environment", "Build", "Interpreter",
                           "Interpreter.run">>
          /\ calls = completed
    /\ (UnknownName /\ Len(calls) > Len(completed)) =>
          error.kind = "CollaboratorFailure"

C10_Witness ==
    /\ error.kind = "UnknownGenerator"
    /\ Len(completed) = 4

====
